---- MODULE Spec2Model ----
(***************************************************************************)
(* Credential decoding pipeline of sandbox-viper: the decoder registry     *)
(* (server/decoder/service.ts) and the four scheme decoders                *)
(* (server/decoder/scheme/{mdoc,hcert,nzcp,jwt}.ts).                       *)
(*                                                                         *)
(* A barcode is a sequence of one-character strings.  Two symbols stand    *)
(* for runs of characters whose content is decided by a vendored codec:    *)
(*   "#"  a well-formed payload chunk; what the codec chain of a scheme    *)
(*        recovers from it is the `blob' of the input;                     *)
(*   "h"  a base64url chunk that parses as a JSON object (a JOSE header).  *)
(* JavaScript values are tagged records, so that numbers, strings, NaN     *)
(* and undefined never compare as equal by accident.                      *)
(***************************************************************************)
EXTENDS Integers, Sequences, FiniteSets, TLC

VARIABLES
  registry,   \* the decoder list a handler factory built, <<>> before that
  pc,         \* where the decode(decoders, input) call in hand stands
  decoders,   \* its decoder list
  input,      \* its input
  idx,        \* the place of the loop in the list
  calls,      \* the decoder methods it invoked so far, in order
  outcome,    \* how its promise settled
  logged,     \* the logger.error lines written during the call
  memo,       \* the memoize caches of one HCERTDecoder, by function and key
  fetches,    \* the network fetches in flight, by function and key
  callers,    \* the concurrent decode() calls on that HCERTDecoder
  store,      \* the Map of one in-memory storage, in insertion order
  now,        \* Date.now(), counted in whole seconds
  written,    \* the latest setItem call on that storage, by key
  answer      \* what the latest call on that storage returned

callVars == <<registry, pc, decoders, input, idx, calls, outcome, logged>>
cacheVars == <<memo, fetches, callers>>
storageVars == <<store, now, written, answer>>
vars == <<registry, pc, decoders, input, idx, calls, outcome, logged,
          memo, fetches, callers, store, now, written, answer>>

\* ---------------------------------------------------------------- bounds
MaxDecoders == 2     \* longest hand-made decoder list passed to decode()
MaxSeconds == 2      \* CWT / JWT timestamps range over 1..MaxSeconds
MaxCtiExtra == 1     \* a CWT ID has between 15 and 16 + MaxCtiExtra bytes
MaxTicks == 2        \* the seconds the clock of the storage advances
MaxExp == 2          \* setItem is called with exp in 1..MaxExp, or without

\* ------------------------------------------------------- JavaScript values
Undefined == [t |-> "undefined"]
Null == [t |-> "null"]
NaN == [t |-> "NaN"]
Num(n) == [t |-> "number", n |-> n]
Str(cs) == [t |-> "string", cs |-> cs]
Bytes(b) == [t |-> "bytes", b |-> b]
Arr(a) == [t |-> "array", a |-> a]
Obj(o) == [t |-> "object", o |-> o]

IsNum(v) == v.t = "number"

\* ToBoolean: what `x ? a : b' tests
Truthy(v) ==
  CASE v.t \in {"undefined", "null", "NaN"} -> FALSE
    [] v.t = "number" -> v.n # 0
    [] v.t = "string" -> v.cs # <<>>
    [] OTHER -> TRUE

\* ToNumber of a string: only the empty string is numeric among the model's
ToNumber(v) ==
  CASE v.t = "number" -> v
    [] v.t = "null" -> Num(0)
    [] v.t = "string" -> IF v.cs = <<>> THEN Num(0) ELSE NaN
    [] OTHER -> NaN

\* the `*' operator
Times(v, k) == IF ToNumber(v).t = "number" THEN Num(ToNumber(v).n * k) ELSE NaN

\* Map.prototype.get / property read: undefined for an absent key
Get(m, k) == IF k \in DOMAIN m THEN m[k] ELSE Undefined

\* ------------------------------------------------------------------ text
S_HC1 == <<"H", "C", "1">>
S_mdoc == <<"m", "d", "o", "c">>
S_NZCP == <<"N", "Z", "C", "P", ":", "/", "1", "/">>
S_urn == <<"u", "r", "n", ":", "u", "u", "i", "d", ":">>

LineTerminators == {"\n", "\r"}

StartsWith(s, p) == Len(s) >= Len(p) /\ SubSeq(s, 1, Len(p)) = p
Drop(s, n) == SubSeq(s, n + 1, Len(s))

\* `(.+)$' : one or more characters, none of them a line terminator
DotPlus(s) == s # <<>> /\ \A i \in 1..Len(s) : s[i] \notin LineTerminators

NoMatch == [matched |-> FALSE]
Matched(g) == [matched |-> TRUE, group |-> g]

\* the ':' after the prefix required
MatchOptColon_ColonRequired(s, prefix) ==
  IF ~StartsWith(s, prefix) THEN NoMatch
  ELSE LET r == Drop(s, Len(prefix)) IN
       IF r # <<>> /\ Head(r) = ":" /\ DotPlus(Tail(r)) THEN Matched(Tail(r))
       ELSE NoMatch

\* input.match('^<prefix>:?(.+)$') : the optional ':' is taken greedily and
\* given back when nothing would be left for the group
MatchOptColon(s, prefix) ==
  IF ~StartsWith(s, prefix) THEN NoMatch
  ELSE LET r == Drop(s, Len(prefix)) IN
       IF r # <<>> /\ Head(r) = ":" /\ DotPlus(Tail(r)) THEN Matched(Tail(r))
       ELSE IF DotPlus(r) THEN Matched(r)
       ELSE NoMatch

HCERT_PATTERN(s) == MatchOptColon(s, S_HC1)
MDOC_PATTERN(s) == MatchOptColon(s, S_mdoc)

NZCP_PATTERN(s) ==
  IF StartsWith(s, S_NZCP) /\ DotPlus(Drop(s, Len(S_NZCP)))
  THEN Matched(Drop(s, Len(S_NZCP)))
  ELSE NoMatch

\* String.prototype.split('.')
RECURSIVE Split(_)
Split(s) ==
  IF \A i \in 1..Len(s) : s[i] # "." THEN <<s>>
  ELSE LET k == CHOOSE i \in 1..Len(s) : s[i] = "." /\ \A j \in 1..(i - 1) : s[j] # "."
       IN <<SubSeq(s, 1, k - 1)>> \o Split(Drop(s, k))

\* ------------------------------------------------------------ DecodeResult
EmptyObject == [k \in {} |-> Undefined]

Fulfilled(raw, data, meta) ==
  [status |-> "fulfilled", raw |-> raw, data |-> data, meta |-> meta]

\* a rejected promise: `error' is the object that reaches the caller.  Every
\* decoder throws `new Error(..)': class is the class of that object, message
\* the leading text of its message and cause the class of the error whose
\* text is interpolated after it ("none" when there is no such error).
Rejected(message, cause) ==
  [status |-> "rejected",
   error |-> [class |-> "Error", message |-> message, cause |-> cause]]

Pending == [status |-> "pending"]

\* ----------------------------------------------------------- codec chains
\* the 45 characters of Base45, and "#" standing for a run of them
Base45Alphabet ==
  {"0", "1", "2", "3", "4", "5", "6", "7", "8", "9",
   "A", "B", "C", "D", "E", "F", "G", "H", "I", "J", "K", "L", "M",
   "N", "O", "P", "Q", "R", "S", "T", "U", "V", "W", "X", "Y", "Z",
   " ", "$", "%", "*", "+", "-", ".", "/", ":", "#"}

\* the 32 characters of RFC 4648 Base32 with its padding, and "#"
Base32Alphabet ==
  {"A", "B", "C", "D", "E", "F", "G", "H", "I", "J", "K", "L", "M",
   "N", "O", "P", "Q", "R", "S", "T", "U", "V", "W", "X", "Y", "Z",
   "2", "3", "4", "5", "6", "7", "=", "#"}

\* the characters Buffer.from(data, 'base64url') decodes (both Base64
\* alphabets), and "#"
Base64Alphabet ==
  {"A", "B", "C", "D", "E", "F", "G", "H", "I", "J", "K", "L", "M",
   "N", "O", "P", "Q", "R", "S", "T", "U", "V", "W", "X", "Y", "Z",
   "a", "b", "c", "d", "e", "f", "g", "h", "i", "j", "k", "l", "m",
   "n", "o", "p", "q", "r", "s", "t", "u", "v", "w", "x", "y", "z",
   "0", "1", "2", "3", "4", "5", "6", "7", "8", "9",
   "-", "_", "+", "/", "#"}

InBase64Alphabet(c) == c \in Base64Alphabet

\* the characters a text decoder decodes: Buffer.from(data, 'base64url')
\* skips a character outside its alphabet and never throws
TextDecoded(enc, payload) ==
  IF enc = "base64url" THEN SelectSeq(payload, InBase64Alphabet) ELSE payload

\* base45-js and hi-base32 throw on a character outside their alphabet
TextDecodeThrows(enc, payload) ==
  CASE enc = "base45" -> \E i \in 1..Len(payload) : payload[i] \notin Base45Alphabet
    [] enc = "base32" -> \E i \in 1..Len(payload) : payload[i] \notin Base32Alphabet
    [] OTHER -> FALSE

\* A payload chunk "#" stands for the text of a buffer.  The blob of the
\* input says what the buffer holds: `wire' how the COSE bytes are wrapped
\* ("deflated": a zlib stream, "plain": the COSE bytes as they are,
\* "corrupt": a zlib header with no stream behind it, "empty": no byte at
\* all), `cose' the layout of the envelope, `cbor' the claim map.  A blob
\* without `wire' or `cose' has the usual ones.
WireOf(blob) == IF "wire" \in DOMAIN blob THEN blob.wire ELSE "plain"
CoseOf(blob) == IF "cose" \in DOMAIN blob THEN blob.cose ELSE "sign1"

\* the bytes of a COSE_Sign1 envelope (tag 18, array of 4), abridged
CoseBytes == <<210, 132>>

\* second bytes of a zlib header: 78 01, 78 9C, 78 DA
ZlibLevels == {1, 156, 218}

\* the buffer the text decoder returns for the chunk "#"
BufferOf(blob) ==
  CASE WireOf(blob) = "plain" -> CoseBytes
    [] WireOf(blob) = "deflated" -> <<120, 156>> \o CoseBytes
    [] WireOf(blob) = "corrupt" -> <<120, 0>> \o CoseBytes
    [] OTHER -> <<>>

\* pako.inflate: the stream behind a zlib header, or an exception
Inflate(buffer) ==
  IF Len(buffer) >= 2 /\ buffer[1] = 120 /\ buffer[2] \in ZlibLevels
  THEN [ok |-> TRUE, bytes |-> Drop(buffer, 2)]
  ELSE [ok |-> FALSE]

\* every buffer handed to inflate
InflateStage_Always(buffer) == Inflate(buffer)

\* `if (buffer[0] == 0x78) return inflate(buffer); return Uint8Array.from(buffer)'
InflateStage(buffer) ==
  IF buffer # <<>> /\ buffer[1] = 120 THEN Inflate(buffer)
  ELSE [ok |-> TRUE, bytes |-> buffer]

\* elements of a COSE value array: byte strings, with the map they hold as
\* CBOR if any, and the unprotected header map
ByteString(map) == [t |-> "bstr", holds |-> map]
NotCbor == [t |-> "notCbor"]
ProtectedHeader == ByteString("1" :> Num(7))
UnprotectedHeader == Obj("4" :> Bytes(<<1>>))
Signature == ByteString(NotCbor)

\* cbor.decode of the (inflated) buffer: a Tagged object with its value
\* array, or an untagged array, which has no `value'
Envelope(blob) ==
  CASE CoseOf(blob) = "sign1" ->
         [value |-> <<ProtectedHeader, UnprotectedHeader, ByteString(blob.cbor), Signature>>]
    [] CoseOf(blob) = "shifted" ->
         [value |-> <<ProtectedHeader, ByteString(blob.cbor), Signature>>]
    [] CoseOf(blob) = "short" ->
         [value |-> <<ProtectedHeader, UnprotectedHeader>>]
    [] OTHER -> [untagged |-> TRUE]

\* cbor.decode(bytes) for the bytes of the buffer
DecodeEnvelope(bytes, blob) ==
  IF bytes = CoseBytes THEN [ok |-> TRUE, coseData |-> Envelope(blob)]
  ELSE [ok |-> FALSE]

\* the element before the payload taken: `coseData.value[1]'
PayloadOf_IndexOne(coseData) ==
  IF "value" \notin DOMAIN coseData THEN [ok |-> FALSE]
  ELSE IF Len(coseData.value) < 2 THEN [ok |-> FALSE]
  ELSE LET e == coseData.value[2] IN
       IF e.t = "bstr" /\ e.holds # NotCbor THEN [ok |-> TRUE, cbor |-> e.holds]
       ELSE [ok |-> FALSE]

\* `cbor.decode(coseData.value[2])': index 2 is the third element; reading
\* [2] of an absent value throws, and so does decoding undefined
PayloadOf(coseData) ==
  IF "value" \notin DOMAIN coseData THEN [ok |-> FALSE]
  ELSE IF Len(coseData.value) < 3 THEN [ok |-> FALSE]
  ELSE LET e == coseData.value[3] IN
       IF e.t = "bstr" /\ e.holds # NotCbor THEN [ok |-> TRUE, cbor |-> e.holds]
       ELSE [ok |-> FALSE]

\* What base45-js / hi-base32 / Buffer, then pako and cbor recover from the
\* text handed to them.  Only the chunk "#" alone carries a payload of the
\* scheme; any other text ends in an exception of some stage.  The MDoc
\* pipeline has neither the inflate stage nor an envelope.
CodecFailed == [ok |-> FALSE]
CodecChain(enc, payload, blob) ==
  IF TextDecodeThrows(enc, payload) THEN CodecFailed
  ELSE IF TextDecoded(enc, payload) # <<"#">> \/ blob.enc # enc THEN CodecFailed
  ELSE IF enc = "base64url" THEN [ok |-> TRUE, cbor |-> blob.cbor]
  ELSE LET inflated == InflateStage(BufferOf(blob)) IN
       IF ~inflated.ok THEN CodecFailed
       ELSE LET cose == DecodeEnvelope(inflated.bytes, blob) IN
            IF ~cose.ok THEN CodecFailed
            ELSE PayloadOf(cose.coseData)

\* ------------------------------------------------------------ uuid.stringify
HexDigits == <<"0", "1", "2", "3", "4", "5", "6", "7",
               "8", "9", "a", "b", "c", "d", "e", "f">>

\* byteToHex[arr[i]] : two hex digits, or the text of `undefined' past the end
ByteToHex(arr, i) ==
  IF i <= Len(arr)
  THEN <<HexDigits[(arr[i] \div 16) + 1], HexDigits[(arr[i] % 16) + 1]>>
  ELSE <<"u", "n", "d", "e", "f", "i", "n", "e", "d">>

RECURSIVE HexRun(_, _, _)
HexRun(arr, from, to) ==
  IF from > to THEN <<>> ELSE ByteToHex(arr, from) \o HexRun(arr, from + 1, to)

UnsafeStringify(arr) ==
  HexRun(arr, 1, 4) \o <<"-">> \o HexRun(arr, 5, 6) \o <<"-">> \o
  HexRun(arr, 7, 8) \o <<"-">> \o HexRun(arr, 9, 10) \o <<"-">> \o
  HexRun(arr, 11, 16)

HexSet == {HexDigits[i] : i \in 1..16}

\* uuid.validate: 8-4-4-4-12 hex digits with version 1..5 and variant
\* 8..b, or the nil UUID
ValidateUuid(cs) ==
  /\ Len(cs) = 36
  /\ \A i \in 1..36 : IF i \in {9, 14, 19, 24} THEN cs[i] = "-" ELSE cs[i] \in HexSet
  /\ \/ cs[15] \in {"1", "2", "3", "4", "5"} /\ cs[20] \in {"8", "9", "a", "b"}
     \/ \A i \in (1..36) \ {9, 14, 19, 24} : cs[i] = "0"

\* stringify(value): throws unless value is indexable and the text validates
StringifyThrows(v) == v.t # "bytes" \/ ~ValidateUuid(UnsafeStringify(v.b))
Stringify(v) == Str(UnsafeStringify(v.b))

\* ------------------------------------------------------------ HCERTDecoder
\* DCC_VALUESETS: the value-set files fetched, by their `valueset-uri'
V_disease == "valuesets/disease-agent-targeted.json"
V_vaccine == "valuesets/vaccine-prophylaxis.json"
DCC_VALUESETS == {V_disease, V_vaccine}

\* A JSON schema, as far as validation reads it: the properties the
\* certificate must have, and the `valueset-uri' annotation of the fields of
\* the entries of its v, t and r groups.
LenientSchema == [required |-> {}, coded |-> "tg" :> V_disease]
StrictSchema == [required |-> {"ver", "nam"}, coded |-> "tg" :> V_disease]
Schemas == {LenientSchema, StrictSchema}

\* value sets: for each file, valueSetValues by code
Display(cs) == Obj("display" :> Str(cs))
Valuesets ==
  {[u \in DCC_VALUESETS |-> <<"8">> :> Display(<<"C">>)],
   [u \in DCC_VALUESETS |-> <<"9">> :> Display(<<"D">>)]}

\* what the specification repository answers to the fetches of one validate
\* call: the schema and value sets are remote data
ValidationOutcomes ==
  {[fetch |-> "failed"]}
  \cup [fetch : {"ok"}, schema : Schemas, valuesets : Valuesets]

\* normalizer of schemaCacheOptions, applied to `record?.ver'
CacheKey(version) == IF version.t = "string" THEN version.cs ELSE <<"d", "e", "f", "a", "u", "l", "t">>

\* `record?.ver'
VersionOf(record) == IF record.t = "object" THEN Get(record.o, "ver") ELSE Undefined

\* the rewrite hook: a field whose schema names a value set is replaced by
\* the entry of that value set for the field, undefined when there is none
RewriteThrows(uri, valuesets) == uri \notin DOMAIN valuesets
Rewrite(field, uri, valuesets) ==
  IF field.t = "string" /\ field.cs \in DOMAIN valuesets[uri]
  THEN valuesets[uri][field.cs]
  ELSE Undefined

\* the entries of the v, t and r groups of the record: the instances the
\* schema's annotated properties are validated on
Entries(record) ==
  IF record.t # "object" THEN {}
  ELSE UNION {{record.o[g].a[i] : i \in 1..Len(record.o[g].a)} :
                g \in {h \in {"v", "t", "r"} \cap DOMAIN record.o : record.o[h].t = "array"}}

\* Validator.validate with the rewrite option: the instance handed in is
\* rewritten in place, property by property
RewriteEntry(entry, schema, valuesets) ==
  IF entry.t # "object" THEN entry
  ELSE Obj([f \in DOMAIN entry.o |->
              IF f \in DOMAIN schema.coded
              THEN Rewrite(entry.o[f], schema.coded[f], valuesets)
              ELSE entry.o[f]])

RewriteGroup(group, schema, valuesets) ==
  IF group.t # "array" THEN group
  ELSE Arr([i \in 1..Len(group.a) |-> RewriteEntry(group.a[i], schema, valuesets)])

Rewritten(record, schema, valuesets) ==
  IF record.t # "object" THEN record
  ELSE Obj([k \in DOMAIN record.o |->
              IF k \in {"v", "t", "r"}
              THEN RewriteGroup(record.o[k], schema, valuesets)
              ELSE record.o[k]])

\* result.errors: validators skip an instance that is not an object
Violations(record, schema) ==
  IF record.t # "object" THEN {}
  ELSE {<<"requires property", k>> : k \in schema.required \ DOMAIN record.o}

\* the errors of the validator dropped
Validate_NoErrors(record, schema, valuesets) ==
  IF \E e \in Entries(record), f \in DOMAIN schema.coded :
       e.t = "object" /\ RewriteThrows(schema.coded[f], valuesets)
  THEN [threw |-> TRUE]
  ELSE [threw |-> FALSE,
        errors |-> {},
        instance |-> Rewritten(record, schema, valuesets)]

\* validate(record) once schema and value sets are there
Validate(record, schema, valuesets) ==
  IF \E e \in Entries(record), f \in DOMAIN schema.coded :
       e.t = "object" /\ RewriteThrows(schema.coded[f], valuesets)
  THEN [threw |-> TRUE]
  ELSE [threw |-> FALSE,
        errors |-> Violations(record, schema),
        instance |-> Rewritten(record, schema, valuesets)]

\* `throw new BadRequestError(..)' of validateOrThrow, as decode() wraps it
RejectedInvalid(errors) ==
  [status |-> "rejected",
   error |-> [class |-> "Error", message |-> "Invalid HCERT payload",
              cause |-> "BadRequestError", violations |-> errors]]

\* the prefix alone tested
HCERTIsMatch_PrefixOnly(s) == StartsWith(s, S_HC1)

HCERTIsMatch(s) == HCERT_PATTERN(s).matched

\* a certificate with no recovery entry either given no kind
HCERTKind_NeedsRecovery(hcert) ==
  IF Truthy(Get(hcert.o, "v")) THEN "Vaccination"
  ELSE IF Truthy(Get(hcert.o, "t")) THEN "Test"
  ELSE IF Truthy(Get(hcert.o, "r")) THEN "Recovery"
  ELSE "Unknown"

HCERTKind(hcert) ==
  IF Truthy(Get(hcert.o, "v")) THEN "Vaccination"
  ELSE IF Truthy(Get(hcert.o, "t")) THEN "Test"
  ELSE "Recovery"

\* the times left in seconds
HCERTMeta_Seconds(cborData, hcert) ==
  [iss |-> Get(cborData, "1"),
   iat |-> Get(cborData, "6"),
   exp |-> Get(cborData, "4"),
   kind |-> HCERTKind(hcert)]

HCERTMeta(cborData, hcert) ==
  [iss |-> Get(cborData, "1"),
   iat |-> Times(Get(cborData, "6"), 1000),
   exp |-> Times(Get(cborData, "4"), 1000),
   kind |-> HCERTKind(hcert)]

\* the CWT with the certificate at sub-key 1 of claim -260 as it is now
WithHcert(cborData, hcert) ==
  [cborData EXCEPT !["-260"] = Obj([@.o EXCEPT !["1"] = hcert])]

\* a failure of the text decoder answered with the empty result
HCERTDecode_Swallows(in, val) ==
  LET m == HCERT_PATTERN(in.text) IN
  IF ~m.matched THEN Rejected("Payload does not confirm to HCERT format", "none")
  ELSE LET c == CodecChain("base45", m.group, in.blob) IN
       IF ~c.ok THEN Fulfilled(EmptyObject, EmptyObject, EmptyObject)
       ELSE LET cborData == c.cbor
                entries == Get(cborData, "-260")
            IN IF entries.t # "object" THEN Rejected("Invalid HCERT payload", "TypeError")
               ELSE LET hcert == Get(entries.o, "1") IN
                    IF val.fetch = "failed" THEN Rejected("Invalid HCERT payload", "HTTPError")
                    ELSE LET v == Validate(hcert, val.schema, val.valuesets) IN
                         IF v.threw THEN Rejected("Invalid HCERT payload", "Error")
                         ELSE IF v.errors # {} THEN RejectedInvalid(v.errors)
                         ELSE IF hcert.t # "object"
                         THEN Rejected("Invalid HCERT payload", "TypeError")
                         ELSE Fulfilled(WithHcert(cborData, v.instance), v.instance,
                                        HCERTMeta(cborData, v.instance))

HCERTDecode(in, val) ==
  LET m == HCERT_PATTERN(in.text) IN
  IF ~m.matched THEN Rejected("Payload does not confirm to HCERT format", "none")
  ELSE LET c == CodecChain("base45", m.group, in.blob) IN
       IF ~c.ok THEN Rejected("Invalid HCERT payload", "codec")
       ELSE LET cborData == c.cbor
                entries == Get(cborData, "-260")
            IN IF entries.t # "object" THEN Rejected("Invalid HCERT payload", "TypeError")
               ELSE LET hcert == Get(entries.o, "1") IN
                    IF val.fetch = "failed" THEN Rejected("Invalid HCERT payload", "HTTPError")
                    ELSE LET v == Validate(hcert, val.schema, val.valuesets) IN
                         IF v.threw THEN Rejected("Invalid HCERT payload", "Error")
                         ELSE IF v.errors # {} THEN RejectedInvalid(v.errors)
                         ELSE IF hcert.t # "object"
                         THEN Rejected("Invalid HCERT payload", "TypeError")
                         ELSE Fulfilled(WithHcert(cborData, v.instance), v.instance,
                                        HCERTMeta(cborData, v.instance))

\* ------------------------------------------------------------- NZCPDecoder
NZCPIsMatch(s) == NZCP_PATTERN(s).matched

\* the JTI without its URN prefix
NZCPMeta_BareJti(cborData) ==
  [iss |-> Times(Get(cborData, "1"), 1000),
   iat |-> Times(Get(cborData, "5"), 1000),
   exp |-> Times(Get(cborData, "4"), 1000),
   cti |-> Stringify(Get(cborData, "7")),
   jti |-> Stringify(Get(cborData, "7"))]

NZCPMeta(cborData) ==
  [iss |-> Times(Get(cborData, "1"), 1000),
   iat |-> Times(Get(cborData, "5"), 1000),
   exp |-> Times(Get(cborData, "4"), 1000),
   cti |-> Stringify(Get(cborData, "7")),
   jti |-> Str(S_urn \o Stringify(Get(cborData, "7")).cs)]

NZCPDecode(in) ==
  LET m == NZCP_PATTERN(in.text) IN
  IF ~m.matched THEN Rejected("Payload does not confirm to NZCP format", "none")
  ELSE LET c == CodecChain("base32", m.group, in.blob) IN
       IF ~c.ok THEN Rejected("Invalid NZCP payload", "codec")
       ELSE IF StringifyThrows(Get(c.cbor, "7")) THEN Rejected("Invalid NZCP payload", "TypeError")
       ELSE Fulfilled(c.cbor, Get(c.cbor, "vc"), NZCPMeta(c.cbor))

\* the NZCPDecoder of decoder/modules/nzcp.ts: the same pipeline, another
\* text in its catch block
ModulesNZCPDecode(in) ==
  LET m == NZCP_PATTERN(in.text) IN
  IF ~m.matched THEN Rejected("Payload does not confirm to NZCP format", "none")
  ELSE LET c == CodecChain("base32", m.group, in.blob) IN
       IF ~c.ok THEN Rejected("Invalid HCERT", "codec")
       ELSE IF StringifyThrows(Get(c.cbor, "7")) THEN Rejected("Invalid HCERT", "TypeError")
       ELSE Fulfilled(c.cbor, Get(c.cbor, "vc"), NZCPMeta(c.cbor))

\* -------------------------------------------------------------- JWTDecoder
\* jose.decodeProtectedHeader: 3 or 5 dot-separated parts, the first one a
\* base64url JSON object
JWTIsMatch(s) == Len(Split(s)) \in {3, 5} /\ Split(s)[1] = <<"h">>

\* the exception of decodeProtectedHeader let out of isMatch
JWTIsMatchThrows_NoCatch(s) == ~(Len(Split(s)) \in {3, 5} /\ Split(s)[1] = <<"h">>)

\* `try { return !!decodeProtectedHeader(input) } catch (err) { return false }'
JWTIsMatchThrows(s) == FALSE

\* jose.decodeJwt: exactly 3 parts, the second one a base64url JSON object
DecodeJwt(in) ==
  IF Len(Split(in.text)) = 3 /\ Split(in.text)[2] = <<"#">> /\ in.blob.enc = "jwt"
  THEN [ok |-> TRUE, claims |-> in.blob.cbor]
  ELSE [ok |-> FALSE]

\* the three times converted to milliseconds, as the CWT decoders do
JWTMeta_Millis(data) ==
  [iss |-> Get(data, "iss"), sub |-> Get(data, "sub"), aud |-> Get(data, "aud"),
   jti |-> Get(data, "jti"), nbf |-> Times(Get(data, "nbf"), 1000),
   exp |-> Times(Get(data, "exp"), 1000), iat |-> Times(Get(data, "iat"), 1000)]

JWTMeta(data) ==
  [iss |-> Get(data, "iss"), sub |-> Get(data, "sub"), aud |-> Get(data, "aud"),
   jti |-> Get(data, "jti"), nbf |-> Get(data, "nbf"), exp |-> Get(data, "exp"),
   iat |-> Get(data, "iat")]

JWTDecode(in) ==
  LET d == DecodeJwt(in) IN
  IF ~d.ok THEN Rejected("Invalid JWT payload", "JWTInvalid")
  ELSE Fulfilled(d.claims, d.claims, JWTMeta(d.claims))

\* --------------------------------------------- MDocDeviceEngagementDecoder
MDocIsMatch(s) == MDOC_PATTERN(s).matched

\* https://www.iana.org/assignments/cose/cose.xhtml#elliptic-curves
EcCurve(crv) ==
  IF crv = Num(1) THEN Str(<<"P", "-", "2", "5", "6">>)
  ELSE IF crv = Num(2) THEN Str(<<"P", "-", "3", "4", "8">>)
  ELSE Undefined

\* Buffer.from(bytes).toString('base64')
ToBase64(v) == [t |-> "base64", of |-> v.b]

MDocMeta(cborData, deviceKey) ==
  [version |-> Get(cborData, "0"),
   security |-> [keyType |-> Get(deviceKey, "1"),
                 cipherSuite |-> Get(cborData, "1").a[1],
                 deviceKey |-> [alg |-> Str(<<"E", "C">>),
                                crv |-> EcCurve(Get(deviceKey, "-1")),
                                x |-> ToBase64(Get(deviceKey, "-2")),
                                y |-> ToBase64(Get(deviceKey, "-3"))]],
   deviceRetrievalMethods |-> Get(cborData, "2")]

MDocDecode(in) ==
  LET m == MDOC_PATTERN(in.text) IN
  IF ~m.matched
  THEN Rejected("Payload does not confirm to MDoc device engagement format", "none")
  ELSE LET c == CodecChain("base64url", m.group, in.blob) IN
       IF ~c.ok THEN Rejected("Invalid MDoc device engagement payload", "codec")
       ELSE LET security == Get(c.cbor, "1") IN
            IF security.t # "array" \/ Len(security.a) < 2 \/ security.a[2].t # "object"
            THEN Rejected("Invalid MDoc device engagement payload", "TypeError")
            ELSE LET deviceKey == security.a[2].o IN
                 IF Get(deviceKey, "-2").t # "bytes" \/ Get(deviceKey, "-3").t # "bytes"
                 THEN Rejected("Invalid MDoc device engagement payload", "TypeError")
                 ELSE Fulfilled(c.cbor, EmptyObject, MDocMeta(c.cbor, deviceKey))

\* ----------------------------------------------------------------- registry
\* the Decoder classes of the repository; "NZCP" is scheme/nzcp.ts, which
\* buildDecoders registers, "ModulesNZCP" is modules/nzcp.ts
DecoderKinds == {"MDoc", "HCERT", "NZCP", "JWT", "ModulesNZCP"}

\* the JWT decoder put first
buildDecoders_JwtFirst == <<"JWT", "MDoc", "HCERT", "NZCP">>

buildDecoders == <<"MDoc", "HCERT", "NZCP", "JWT">>

isMatch(d, in) ==
  CASE d = "MDoc" -> MDocIsMatch(in.text)
    [] d = "HCERT" -> HCERTIsMatch(in.text)
    [] d = "NZCP" -> NZCPIsMatch(in.text)
    [] d = "JWT" -> JWTIsMatch(in.text)
    [] d = "ModulesNZCP" -> NZCPIsMatch(in.text)

\* an exception out of isMatch: input.match(pattern) throws on no string
isMatchThrows(d, in) ==
  CASE d = "JWT" -> JWTIsMatchThrows(in.text)
    [] OTHER -> FALSE

\* the exception of isMatch, as the promise of decode(decoders, input) has it
IsMatchFailed == Rejected("Invalid Token or Protected Header formatting", "none")

decoderDecode(d, in, val) ==
  CASE d = "MDoc" -> MDocDecode(in)
    [] d = "HCERT" -> HCERTDecode(in, val)
    [] d = "NZCP" -> NZCPDecode(in)
    [] d = "JWT" -> JWTDecode(in)
    [] d = "ModulesNZCP" -> ModulesNZCPDecode(in)

\* the scheme a decoder class is for
SchemeOf(d) == IF d = "ModulesNZCP" THEN "NZCP" ELSE d

\* logger.error in the catch block of decode()
CatchLog(d) ==
  CASE d = "MDoc" -> "Failed to decode MDoc device engagement input"
    [] d = "HCERT" -> "Failed to decode HCERT input"
    [] d = "JWT" -> "Failed to decode JWT input"
    [] OTHER -> "Failed to decode NZCP input"

\* logger.error of fetchJsonSchema / fetchValuesets when a download fails
FetchLog == "Failed to download DCC JSON schema"

\* the logger.error lines of one decoder.decode(input): the throw before the
\* try block is not logged, a failed download is logged where it happens and
\* again by the catch block
decoderLogs(d, in, val) ==
  LET r == decoderDecode(d, in, val) IN
  IF r.status # "rejected" \/ r.error.cause = "none" THEN <<>>
  ELSE IF r.error.cause = "HTTPError" THEN <<FetchLog, CatchLog(d)>>
  ELSE <<CatchLog(d)>>

EmptyResult == Fulfilled(EmptyObject, EmptyObject, EmptyObject)

\* ------------------------------------------------------------------ inputs
Absent == [t |-> "absent"]
Opt(S) == S \cup {Absent}
MkMap(f) == [k \in {x \in DOMAIN f : f[x] # Absent} |-> f[k]]

Seconds == {Num(n) : n \in 1..MaxSeconds}
Issuer == Str(<<"N", "Z">>)
\* one entry of a v, t or r group: disease targeted (a code) and dose number
Group == Arr(<<Obj("tg" :> Str(<<"8">>) @@ "dn" :> Num(1))>>)

\* health certificates: each of v, t, r absent, an entry list, or null
HcertObjects ==
  {Obj(MkMap([v |-> v, t |-> t, r |-> r])) :
     v \in Opt({Group, Null}), t \in Opt({Group, Null}), r \in Opt({Group, Null})}

HcertCwt(iss, iat, exp, entries) ==
  MkMap("1" :> iss @@ "6" :> iat @@ "4" :> exp @@ "-260" :> entries)

HcertBlobs ==
  {[enc |-> "base45", cbor |-> HcertCwt(Issuer, Num(1), Num(MaxSeconds), Obj("1" :> h))] :
     h \in HcertObjects}
  \cup
  {[enc |-> "base45", cbor |-> HcertCwt(iss, iat, exp, e)] :
     iss \in Opt({Issuer}), iat \in Opt(Seconds), exp \in Opt(Seconds),
     e \in Opt({Obj("1" :> Obj(MkMap([v |-> Group]))), Obj(EmptyObject)})}

\* a certificate without a schema version, and one with a version that the
\* strict schema accepts
VersionedHcerts ==
  {Obj(MkMap([v |-> Group])),
   Obj(MkMap([v |-> Group, ver |-> Str(<<"1">>), nam |-> Str(<<"n">>)]))}

VersionedBlobs ==
  {[enc |-> "base45", cbor |-> HcertCwt(Issuer, Num(1), Num(MaxSeconds), Obj("1" :> h))] :
     h \in VersionedHcerts}

\* CWT IDs: 15 .. 16 + MaxCtiExtra bytes, with byte 7 (version) and byte 9
\* (variant) chosen, and the nil id
CtiBytes(len, ver, var) ==
  [i \in 1..len |-> IF i = 7 THEN ver ELSE IF i = 9 THEN var ELSE (i * 17) % 256]

CtiValues ==
  {Bytes(CtiBytes(len, ver, var)) :
     len \in 15..(16 + MaxCtiExtra), ver \in {64, 0}, var \in {128, 0}}
  \cup {Bytes([i \in 1..16 |-> 0])}

ValidCti == Bytes(CtiBytes(16, 64, 128))
Credential == Obj("credentialSubject" :> Obj("givenName" :> Str(<<"J">>)))

NzcpCwt(iss, iat, exp, cti, vc) ==
  MkMap("1" :> iss @@ "5" :> iat @@ "4" :> exp @@ "7" :> cti @@ "vc" :> vc)

NzcpBlobs ==
  {[enc |-> "base32", cbor |-> NzcpCwt(Issuer, Num(1), Num(MaxSeconds), cti, Credential)] :
     cti \in Opt(CtiValues)}
  \cup
  {[enc |-> "base32", cbor |-> NzcpCwt(iss, iat, exp, ValidCti, vc)] :
     iss \in Opt({Issuer}), iat \in Opt(Seconds), exp \in Opt(Seconds),
     vc \in Opt({Credential})}

\* a claim set with the seven registered claims and one private claim
FullClaims ==
  [iss |-> Issuer, sub |-> Str(<<"s">>), aud |-> Arr(<<Str(<<"a">>)>>),
   jti |-> Str(<<"j">>), nbf |-> Num(1), exp |-> Num(MaxSeconds), iat |-> Num(1),
   scope |-> Str(<<"r">>)]

JwtBlobs ==
  {[enc |-> "jwt", cbor |-> MkMap([iss |-> iss, iat |-> iat, exp |-> exp])] :
     iss \in Opt({Issuer}), iat \in Opt(Seconds), exp \in Opt(Seconds)}
  \cup {[enc |-> "jwt", cbor |-> FullClaims]}

DeviceKey(crv, x) ==
  Obj(MkMap("1" :> Num(2) @@ "-1" :> crv @@ "-2" :> x @@ "-3" :> Bytes(<<2>>)))

MDocBlobs ==
  {[enc |-> "base64url",
    cbor |-> "0" :> Str(<<"1", ".", "0">>)
             @@ "1" :> Arr(<<Num(1), DeviceKey(crv, x)>>)
             @@ "2" :> Arr(<<Num(2)>>)] :
     crv \in {Num(1), Num(2), Num(3)}, x \in Opt({Bytes(<<1>>)})}

JunkBlob == [enc |-> "none", cbor |-> EmptyObject]

\* the same certificate and pass in every wrapping and envelope layout
Wires == {"plain", "deflated", "corrupt", "empty"}
Layouts == {"sign1", "shifted", "short", "untagged"}

WrappedBlobs ==
  {[enc |-> e, cbor |-> IF e = "base45"
                        THEN HcertCwt(Issuer, Num(1), Num(MaxSeconds),
                                      Obj("1" :> Obj(MkMap([v |-> Group]))))
                        ELSE NzcpCwt(Issuer, Num(1), Num(MaxSeconds), ValidCti, Credential),
    wire |-> w, cose |-> c] :
     e \in {"base45", "base32"}, w \in Wires, c \in Layouts}

SampleBlobs ==
  {JunkBlob,
   CHOOSE b \in HcertBlobs : TRUE, CHOOSE b \in NzcpBlobs : TRUE,
   CHOOSE b \in JwtBlobs : TRUE, CHOOSE b \in MDocBlobs : TRUE}

HcertTexts == {S_HC1 \o <<":", "#">>, S_HC1 \o <<"#">>}
NzcpTexts == {S_NZCP \o <<"#">>}
JwtTexts == {<<"h", ".", "#", ".", "x">>}
MDocTexts == {S_mdoc \o <<":", "#">>, S_mdoc \o <<"#">>}

EdgeTexts ==
  {<<>>, <<"x">>, <<"#">>,
   S_HC1, S_HC1 \o <<":">>, S_HC1 \o <<":", "#", "\n">>, S_HC1 \o <<":", "!">>, S_HC1 \o <<":", "#", "x">>,
   <<"H", "C", "2", ":", "#">>,
   S_mdoc, S_mdoc \o <<":">>, S_mdoc \o <<":", ":", "#">>,
   S_mdoc \o <<":", "#", "\n">>, S_mdoc \o <<":", ":">>,
   S_NZCP, <<"N", "Z", "C", "P", ":", "/", "2", "/", "#">>,
   <<"h", ".", "#">>, <<"h", ".", "#", ".", "x", ".", "x", ".", "x">>,
   <<"#", ".", "#", ".", "x">>, <<"h", ".", "x", ".", "x">>,
   S_HC1 \o <<":", "h", ".", "#", ".", "x">>}

Inputs ==
  [text : HcertTexts, blob : HcertBlobs \cup VersionedBlobs] \cup [text : NzcpTexts, blob : NzcpBlobs]
  \cup [text : JwtTexts, blob : JwtBlobs] \cup [text : MDocTexts, blob : MDocBlobs]
  \cup {in \in [text : {S_HC1 \o <<":", "#">>, S_NZCP \o <<"#">>}, blob : WrappedBlobs] :
          (in.blob.enc = "base45") <=> StartsWith(in.text, S_HC1)}
  \cup [text : HcertTexts \cup NzcpTexts \cup JwtTexts \cup MDocTexts \cup EdgeTexts,
        blob : SampleBlobs]

RECURSIVE SeqsUpTo(_, _)
SeqsUpTo(S, n) ==
  IF n = 0 THEN {<<>>}
  ELSE SeqsUpTo(S, n - 1) \cup {Append(q, x) : q \in SeqsUpTo(S, n - 1), x \in S}

DecoderLists == SeqsUpTo(DecoderKinds, MaxDecoders)

\* ------------------------------------------------- memoized remote fetches
MaxCallers == 2      \* concurrent decode() calls on one HCERTDecoder

Callers == 1..MaxCallers

DefaultKey == CacheKey(Undefined)

\* the cache entries of fetchJsonSchemaCached, by version key, and the one
\* of fetchValuesetsCached, which validate calls without a version
MemoKeys ==
  {<<"fetchJsonSchema", k>> : k \in {DefaultKey, <<"1">>}}
  \cup {<<"fetchValuesets", DefaultKey>>}

\* what a download of the function can deliver
Remote(fn) == IF fn = "fetchJsonSchema" THEN Schemas ELSE Valuesets

NoEntry == [s |-> "absent"]
PendingEntry == [s |-> "pending"]
Resolved(v) == [s |-> "resolved", value |-> v]

Idle ==
  [pc |-> "idle", in |-> [text |-> <<>>, blob |-> JunkBlob],
   schema |-> Absent, outcome |-> Pending]

\* the HC1 barcodes the concurrent callers decode
CacheInputs ==
  [text : {S_HC1 \o <<":", "#">>}, blob : VersionedBlobs]
  \cup {[text |-> S_HC1 \o <<":", "!">>, blob |-> JunkBlob]}

InitCache ==
  /\ memo = [k \in MemoKeys |-> NoEntry]
  /\ fetches = [k \in MemoKeys |-> 0]
  /\ callers = [c \in Callers |-> Idle]

\* decode() gets as far as validateOrThrow on this input
ReachesValidate(in) ==
  LET r == HCERTDecode(in, [fetch |-> "failed"]) IN
  r.status = "rejected" /\ r.error.cause = "HTTPError"

\* the hcert object handed to validate
HcertOf(in) == Get(Get(in.blob.cbor, "-260").o, "1")

\* the memoized call a caller stands at, and the one it goes to next
FnAt(c) ==
  IF callers[c].pc \in {"callSchema", "awaitSchema"}
  THEN "fetchJsonSchema" ELSE "fetchValuesets"

KeyAt(c) ==
  IF FnAt(c) = "fetchJsonSchema"
  THEN <<"fetchJsonSchema", CacheKey(VersionOf(HcertOf(callers[c].in)))>>
  ELSE <<"fetchValuesets", CacheKey(Undefined)>>

\* `version ? `release/${version}` : 'main'' of fetchJsonSchema and
\* fetchValuesets
Branch(version) ==
  IF Truthy(version) THEN <<"release", version.cs>> ELSE <<"main">>

\* the version argument of the memoized call a caller stands at: validate
\* passes `version' to fetchJsonSchemaCached and nothing to
\* fetchValuesetsCached
VersionAt(c) ==
  IF FnAt(c) = "fetchJsonSchema" THEN VersionOf(HcertOf(callers[c].in)) ELSE Undefined

\* the caller after its awaited download delivered v: with the schema it
\* goes on to the value sets, with the value sets through validate and the
\* rest of decode, which await nothing else
Delivered(caller, fn, v) ==
  IF fn = "fetchJsonSchema"
  THEN [caller EXCEPT !.schema = v, !.pc = "callValuesets"]
  ELSE [caller EXCEPT !.pc = "done",
          !.outcome = HCERTDecode(caller.in,
                        [fetch |-> "ok", schema |-> caller.schema, valuesets |-> v])]

Awaiting(k) ==
  {c \in Callers : callers[c].pc \in {"awaitSchema", "awaitValuesets"} /\ KeyAt(c) = k}

\* decode(input) up to `await this.validateOrThrow(hcert)'
StartDecode(c) ==
  /\ callers[c].pc = "idle"
  /\ \E in \in CacheInputs :
       callers' = [callers EXCEPT ![c] =
                     IF ReachesValidate(in)
                     THEN [Idle EXCEPT !.pc = "callSchema", !.in = in]
                     ELSE [Idle EXCEPT !.pc = "done", !.in = in,
                             !.outcome = HCERTDecode(in, [fetch |-> "failed"])]]
  /\ UNCHANGED <<memo, fetches>>
  /\ UNCHANGED <<callVars, storageVars>>

\* memoize without `promise: true': an entry exists only once the download
\* has resolved, so every call before that starts a download of its own
CallCached_NoPending(c) ==
  /\ callers[c].pc \in {"callSchema", "callValuesets"}
  /\ LET k == KeyAt(c)
         wait == IF FnAt(c) = "fetchJsonSchema" THEN "awaitSchema" ELSE "awaitValuesets"
     IN IF memo[k].s = "resolved"
        THEN /\ callers' = [callers EXCEPT ![c] = Delivered(@, FnAt(c), memo[k].value)]
             /\ UNCHANGED <<memo, fetches>>
        ELSE /\ memo' = memo
             /\ fetches' = [fetches EXCEPT ![k] = @ + 1]
             /\ callers' = [callers EXCEPT ![c].pc = wait]
  /\ UNCHANGED <<callVars, storageVars>>

\* this.fetchJsonSchemaCached(logger, version) / this.fetchValuesetsCached(
\* logger): memoize in promise mode keeps the promise of the first call under
\* the key and hands it to every call that finds it there
CallCached(c) ==
  /\ callers[c].pc \in {"callSchema", "callValuesets"}
  /\ LET k == KeyAt(c)
         wait == IF FnAt(c) = "fetchJsonSchema" THEN "awaitSchema" ELSE "awaitValuesets"
     IN CASE memo[k].s = "resolved" ->
               /\ callers' = [callers EXCEPT ![c] = Delivered(@, FnAt(c), memo[k].value)]
               /\ UNCHANGED <<memo, fetches>>
          [] memo[k].s = "pending" ->
               /\ callers' = [callers EXCEPT ![c].pc = wait]
               /\ UNCHANGED <<memo, fetches>>
          [] memo[k].s = "absent" ->
               /\ memo' = [memo EXCEPT ![k] = PendingEntry]
               /\ fetches' = [fetches EXCEPT ![k] = @ + 1]
               /\ callers' = [callers EXCEPT ![c].pc = wait]
  /\ UNCHANGED <<callVars, storageVars>>

\* a download answers: the entry is kept for maxAge and every caller
\* awaiting the promise goes on with the value
FetchResolves(k) ==
  /\ fetches[k] > 0
  /\ \E v \in Remote(k[1]) :
       /\ memo' = [memo EXCEPT ![k] = Resolved(v)]
       /\ callers' = [c \in Callers |->
                        IF c \in Awaiting(k) THEN Delivered(callers[c], k[1], v)
                        ELSE callers[c]]
  /\ fetches' = [fetches EXCEPT ![k] = @ - 1]
  /\ UNCHANGED <<callVars, storageVars>>

\* a download fails and the rejected promise stays under its key
FetchFails_Cached(k) ==
  /\ fetches[k] > 0
  /\ memo' = [memo EXCEPT ![k] = [s |-> "rejected"]]
  /\ callers' = [c \in Callers |->
                   IF c \in Awaiting(k)
                   THEN [callers[c] EXCEPT !.pc = "done",
                           !.outcome = HCERTDecode(callers[c].in, [fetch |-> "failed"])]
                   ELSE callers[c]]
  /\ fetches' = [fetches EXCEPT ![k] = @ - 1]
  /\ UNCHANGED <<callVars, storageVars>>

\* a download fails: the rejected entry is removed and every caller awaiting
\* the promise fails in the catch block of decode
FetchFails(k) ==
  /\ fetches[k] > 0
  /\ memo' = [memo EXCEPT ![k] = NoEntry]
  /\ callers' = [c \in Callers |->
                   IF c \in Awaiting(k)
                   THEN [callers[c] EXCEPT !.pc = "done",
                           !.outcome = HCERTDecode(callers[c].in, [fetch |-> "failed"])]
                   ELSE callers[c]]
  /\ fetches' = [fetches EXCEPT ![k] = @ - 1]
  /\ UNCHANGED <<callVars, storageVars>>

\* the caller takes the outcome
ReturnDecode(c) ==
  /\ callers[c].pc = "done"
  /\ callers' = [callers EXCEPT ![c] = Idle]
  /\ UNCHANGED <<memo, fetches>>
  /\ UNCHANGED <<callVars, storageVars>>

\* maxAge (one hour) after it resolved, an entry is dropped
Expire(k) ==
  /\ memo[k].s = "resolved"
  /\ memo' = [memo EXCEPT ![k] = NoEntry]
  /\ UNCHANGED <<fetches, callers>>
  /\ UNCHANGED <<callVars, storageVars>>

\* -------------------------------------------------------- in-memory storage
StorageKeys == {"a", "b"}

\* the records kept: plain objects with scalar properties
StoredRecords ==
  {Obj("id" :> Str(<<"a">>) @@ "n" :> Num(1)),
   Obj("id" :> Str(<<"b">>) @@ "n" :> NaN),
   Obj("id" :> Str(<<"a">>) @@ "opt" :> Undefined)}

\* JSON.stringify of a plain object: a property whose value is undefined is
\* left out, NaN is written as null
JSONStringify(value) ==
  [members |->
     [k \in {f \in DOMAIN value.o : value.o[f].t # "undefined"} |->
        CASE value.o[k].t \in {"NaN", "null"} -> [j |-> "null"]
          [] value.o[k].t = "number" -> [j |-> "number", n |-> value.o[k].n]
          [] value.o[k].t = "string" -> [j |-> "string", cs |-> value.o[k].cs]]]

\* JSON.parse of such a text
JSONParse(text) ==
  Obj([k \in DOMAIN text.members |->
         CASE text.members[k].j = "null" -> Null
           [] text.members[k].j = "number" -> Num(text.members[k].n)
           [] text.members[k].j = "string" -> Str(text.members[k].cs)])

\* the default of the exp parameter of setItem, in seconds
DefaultExp == 86400 * 1000
Expiries == {Absent} \cup {Num(e) : e \in 1..MaxExp}

\* Map.prototype.has / get / set: set keeps the place of a key it replaces
MapHas(m, key) == \E i \in DOMAIN m : m[i].key = key
MapGet(m, key) == m[CHOOSE i \in DOMAIN m : m[i].key = key]
MapSet(m, key, record) ==
  IF MapHas(m, key)
  THEN [i \in DOMAIN m |-> IF m[i].key = key THEN record ELSE m[i]]
  ELSE Append(m, record)

\* prune(): every record whose exp has been reached is deleted
IsFresh(record) == now < record.exp
prune(m) == SelectSeq(m, IsFresh)

NoCall == [op |-> "none"]
InitStorage ==
  /\ store = <<>>
  /\ now = 0
  /\ written = [k \in StorageKeys |-> NoCall]
  /\ answer = NoCall

\* setItem(key, value, exp)
setItem(key, value, exp) ==
  LET seconds == IF exp = Absent THEN DefaultExp ELSE exp.n IN
  /\ store' = MapSet(store, key, [key |-> key, data |-> JSONStringify(value),
                                   exp |-> now + seconds])
  /\ written' = [written EXCEPT ![key] =
                   [op |-> "setItem", value |-> value, at |-> now, exp |-> seconds]]
  /\ answer' = [op |-> "setItem", at |-> now]
  /\ UNCHANGED now
  /\ UNCHANGED <<callVars, cacheVars>>

\* getItem(key)
getItem(key) ==
  /\ store' = prune(store)
  /\ answer' = [op |-> "getItem", key |-> key, at |-> now,
                 value |-> IF MapHas(prune(store), key)
                           THEN JSONParse(MapGet(prune(store), key).data)
                           ELSE Null]
  /\ UNCHANGED <<now, written>>
  /\ UNCHANGED <<callVars, cacheVars>>

\* getAll()
getAll ==
  /\ answer' = [op |-> "getAll", at |-> now,
                 value |-> [i \in DOMAIN store |-> JSONParse(store[i].data)]]
  /\ UNCHANGED <<store, now, written>>
  /\ UNCHANGED <<callVars, cacheVars>>

\* isEmpty()
isEmpty ==
  /\ answer' = [op |-> "isEmpty", at |-> now, value |-> Len(store) = 0]
  /\ UNCHANGED <<store, now, written>>
  /\ UNCHANGED <<callVars, cacheVars>>

\* a second passes
Tick ==
  /\ now < MaxTicks
  /\ now' = now + 1
  /\ UNCHANGED <<store, written, answer>>
  /\ UNCHANGED <<callVars, cacheVars>>

\* ---------------------------------------------------------------- actions
Invoked(op, i) == [op |-> op, at |-> i]

Init ==
  /\ registry = <<>>
  /\ pc = "idle"
  /\ decoders = <<>>
  /\ input = [text |-> <<>>, blob |-> JunkBlob]
  /\ idx = 1
  /\ calls = <<>>
  /\ outcome = Pending
  /\ logged = <<>>
  /\ InitCache
  /\ InitStorage

\* a handler factory builds its own decoder list
BuildDecoders ==
  /\ registry' = buildDecoders
  /\ UNCHANGED <<pc, decoders, input, idx, calls, outcome, logged>>
  /\ UNCHANGED <<cacheVars, storageVars>>

Enter(decs, in) ==
  /\ decoders' = decs
  /\ input' = in
  /\ idx' = 1
  /\ calls' = <<>>
  /\ outcome' = Pending
  /\ logged' = <<>>
  /\ pc' = "loop"
  /\ UNCHANGED registry
  /\ UNCHANGED <<cacheVars, storageVars>>

\* GET /decode?barcode=.. and POST /decode {barcode}
HandleRequest ==
  /\ pc = "idle"
  /\ registry # <<>>
  /\ \E in \in Inputs : Enter(registry, in)

\* decode(decoders, input) called with a list of the caller's own
CallDecode ==
  /\ pc = "idle"
  /\ \E decs \in DecoderLists, in \in Inputs : Enter(decs, in)

\* the test of isMatch inverted
LoopIsMatch_Negated ==
  /\ pc = "loop"
  /\ idx <= Len(decoders)
  /\ calls' = Append(calls, Invoked("isMatch", idx))
  /\ IF isMatchThrows(decoders[idx], input)
     THEN pc' = "done" /\ idx' = idx /\ outcome' = IsMatchFailed
     ELSE /\ outcome' = outcome
          /\ IF ~isMatch(decoders[idx], input)
             THEN pc' = "await" /\ idx' = idx
             ELSE pc' = "loop" /\ idx' = idx + 1
  /\ UNCHANGED <<registry, decoders, input, logged>>
  /\ UNCHANGED <<cacheVars, storageVars>>

\* a match hands the input to the last decoder of the list
LoopIsMatch_LastDecodes ==
  /\ pc = "loop"
  /\ idx <= Len(decoders)
  /\ calls' = Append(calls, Invoked("isMatch", idx))
  /\ IF isMatchThrows(decoders[idx], input)
     THEN pc' = "done" /\ idx' = idx /\ outcome' = IsMatchFailed
     ELSE /\ outcome' = outcome
          /\ IF isMatch(decoders[idx], input)
             THEN pc' = "await" /\ idx' = Len(decoders)
             ELSE pc' = "loop" /\ idx' = idx + 1
  /\ UNCHANGED <<registry, decoders, input, logged>>
  /\ UNCHANGED <<cacheVars, storageVars>>

\* `for (const decoder of decoders) if (decoder.isMatch(input))'
LoopIsMatch ==
  /\ pc = "loop"
  /\ idx <= Len(decoders)
  /\ calls' = Append(calls, Invoked("isMatch", idx))
  /\ IF isMatchThrows(decoders[idx], input)
     THEN pc' = "done" /\ idx' = idx /\ outcome' = IsMatchFailed
     ELSE /\ outcome' = outcome
          /\ IF isMatch(decoders[idx], input)
             THEN pc' = "await" /\ idx' = idx
             ELSE pc' = "loop" /\ idx' = idx + 1
  /\ UNCHANGED <<registry, decoders, input, logged>>
  /\ UNCHANGED <<cacheVars, storageVars>>

\* a failed decode() falls through to the next decoder
AwaitDecode_FallsThrough ==
  /\ pc = "await"
  /\ calls' = Append(calls, Invoked("decode", idx))
  /\ \E val \in ValidationOutcomes :
       LET r == decoderDecode(decoders[idx], input, val) IN
       /\ logged' = decoderLogs(decoders[idx], input, val)
       /\ IF r.status = "rejected"
          THEN outcome' = outcome /\ pc' = "loop" /\ idx' = idx + 1
          ELSE outcome' = r /\ pc' = "done" /\ idx' = idx
  /\ UNCHANGED <<registry, decoders, input>>
  /\ UNCHANGED <<cacheVars, storageVars>>

\* `return await decoder.decode(input)'
AwaitDecode ==
  /\ pc = "await"
  /\ \E val \in ValidationOutcomes :
       /\ outcome' = decoderDecode(decoders[idx], input, val)
       /\ logged' = decoderLogs(decoders[idx], input, val)
  /\ calls' = Append(calls, Invoked("decode", idx))
  /\ pc' = "done"
  /\ UNCHANGED <<registry, decoders, input, idx>>
  /\ UNCHANGED <<cacheVars, storageVars>>

\* no match reported as an error
ReturnEmpty_Throws ==
  /\ pc = "loop"
  /\ idx > Len(decoders)
  /\ outcome' = Rejected("Unrecognized payload", "none")
  /\ pc' = "done"
  /\ UNCHANGED <<registry, decoders, input, idx, calls, logged>>
  /\ UNCHANGED <<cacheVars, storageVars>>

\* `return { raw: {}, data: {}, meta: {} }'
ReturnEmpty ==
  /\ pc = "loop"
  /\ idx > Len(decoders)
  /\ outcome' = EmptyResult
  /\ pc' = "done"
  /\ UNCHANGED <<registry, decoders, input, idx, calls, logged>>
  /\ UNCHANGED <<cacheVars, storageVars>>

\* the promise settles and the caller takes the outcome
Settle ==
  /\ pc = "done"
  /\ pc' = "idle"
  /\ decoders' = <<>>
  /\ input' = [text |-> <<>>, blob |-> JunkBlob]
  /\ idx' = 1
  /\ calls' = <<>>
  /\ outcome' = Pending
  /\ logged' = <<>>
  /\ UNCHANGED registry
  /\ UNCHANGED <<cacheVars, storageVars>>

Next ==
  \/ BuildDecoders
  \/ HandleRequest
  \/ CallDecode
  \/ LoopIsMatch
  \/ AwaitDecode
  \/ ReturnEmpty
  \/ Settle

Spec == Init /\ [][Next]_vars

\* concurrent decode() calls on the HCERTDecoder of one registry
NextCache ==
  \/ \E c \in Callers : StartDecode(c)
  \/ \E c \in Callers : CallCached(c)
  \/ \E k \in MemoKeys : FetchResolves(k)
  \/ \E k \in MemoKeys : FetchFails(k)
  \/ \E c \in Callers : ReturnDecode(c)
  \/ \E k \in MemoKeys : Expire(k)

SpecCache == Init /\ [][NextCache]_vars

\* the calls on one in-memory storage, as time passes
NextStorage ==
  \/ \E key \in StorageKeys, value \in StoredRecords, exp \in Expiries :
       setItem(key, value, exp)
  \/ \E key \in StorageKeys : getItem(key)
  \/ getAll
  \/ isEmpty
  \/ Tick

SpecStorage == Init /\ [][NextStorage]_vars

\* ============================================================== properties
\* the decoders of the list in hand whose isMatch accepts the input in hand
Matching == {i \in 1..Len(decoders) : isMatch(decoders[i], input)}
FirstMatch == CHOOSE i \in Matching : \A j \in Matching : i <= j

\* the decode() outcomes the decoder at place i can give for the input in hand
DecodeOutcomes(i) == {decoderDecode(decoders[i], input, val) : val \in ValidationOutcomes}

\* isMatch on places 1..f in order, then decode on place f, and nothing else
CallsUpTo(f) ==
  [i \in 1..(f + 1) |-> IF i <= f THEN Invoked("isMatch", i) ELSE Invoked("decode", f)]

\* the call in hand returned, and it was the decoder of scheme d that decoded
DecodedBy(d) ==
  /\ pc = "done"
  /\ calls # <<>>
  /\ calls[Len(calls)].op = "decode"
  /\ decoders[calls[Len(calls)].at] = d

Cwt == input.blob.cbor

\* C1: decode(decoders, input) returns the decode() result of the first
\* decoder, in list order, whose isMatch accepts the input; the decoders
\* before it have only isMatch invoked, the decoders after it nothing.
C1_FirstMatchDecodes ==
  Matching # {} =>
    /\ \A i \in 1..Len(calls) : calls[i].at <= FirstMatch
    /\ \A i \in 1..Len(calls) : calls[i].op = "decode" => calls[i].at = FirstMatch
    /\ pc = "done" => /\ outcome \in DecodeOutcomes(FirstMatch)
                      /\ calls = CallsUpTo(FirstMatch)

\* C1 witness: a call returned a result although a later decoder of the list
\* matches the input as well
C1_Witness ==
  /\ pc = "done"
  /\ Cardinality(Matching) >= 2
  /\ outcome.status = "fulfilled"

\* C2: when no decoder of the list matches (the empty list and the empty
\* input included) decode returns exactly {raw: {}, data: {}, meta: {}} and
\* throws nothing.
C2_NoMatchEmptyResult ==
  (pc = "done" /\ Matching = {}) =>
    /\ outcome = Fulfilled(EmptyObject, EmptyObject, EmptyObject)
    /\ \A i \in 1..Len(calls) : calls[i].op = "isMatch"
    /\ Len(calls) = Len(decoders)

\* C2 witness: a call on a non-empty list returned with no decoder matching
C2_Witness ==
  /\ pc = "done"
  /\ Matching = {}
  /\ Len(decoders) >= 2
  /\ input.text # <<>>

\* C3: when decode() of the first matching decoder fails, decode(decoders,
\* input) fails with that error; no later decoder is tried after a match and
\* the failure never becomes the empty result.
C3_DecodeFailurePropagates ==
  (pc = "done" /\ Matching # {} /\
     \A r \in DecodeOutcomes(FirstMatch) : r.status = "rejected") =>
    /\ outcome.status = "rejected"
    /\ outcome \in DecodeOutcomes(FirstMatch)
    /\ \A i \in 1..Len(calls) : calls[i].at <= FirstMatch

\* C3 witness: the first decoder matched and failed while a later decoder of
\* the list was still untried
C3_Witness ==
  /\ pc = "done"
  /\ Matching # {}
  /\ FirstMatch < Len(decoders)
  /\ outcome.status = "rejected"

\* C4: buildDecoders returns exactly four decoders in the order MDoc device
\* engagement, HCERT, NZCP, JWT, the JWT decoder last, on every call.
C4_RegistryOrder ==
  registry # <<>> =>
    /\ Len(registry) = 4
    /\ registry[1] = "MDoc" /\ registry[2] = "HCERT"
    /\ registry[3] = "NZCP" /\ registry[4] = "JWT"

\* C4 witness: a request is being served from a built registry
C4_Witness == registry # <<>> /\ pc = "loop" /\ decoders = registry

\* C5: with the registry of buildDecoders, decode of the JWT decoder is
\* invoked only for inputs that none of the MDoc, HCERT and NZCP isMatch
\* predicates accepts.
C5_JwtOnlyWhenNoPrefixMatches ==
  (decoders = registry /\ registry # <<>>) =>
    \A i \in 1..Len(calls) :
      (calls[i].op = "decode" /\ decoders[calls[i].at] = "JWT") =>
        /\ ~MDocIsMatch(input.text)
        /\ ~HCERTIsMatch(input.text)
        /\ ~NZCPIsMatch(input.text)

\* C5 witness: the registry's JWT decoder decoded an input
C5_Witness ==
  /\ decoders = registry /\ registry # <<>>
  /\ DecodedBy("JWT")
  /\ outcome.status = "fulfilled"

\* seconds to milliseconds, stated with plain arithmetic
Millis(v) == IF IsNum(v) THEN Num(v.n * 1000) ELSE NaN

\* C6: for every HCERT input that decodes, meta.iss is CWT claim 1 unchanged,
\* meta.iat is claim 6 times 1000 and meta.exp is claim 4 times 1000.
C6_HcertMetaClaims ==
  (DecodedBy("HCERT") /\ outcome.status = "fulfilled") =>
    /\ outcome.meta.iss = Get(Cwt, "1")
    /\ outcome.meta.iat = Millis(Get(Cwt, "6"))
    /\ outcome.meta.exp = Millis(Get(Cwt, "4"))

\* C6 witness: an HCERT decoded whose claims 1, 4 and 6 are all there, with
\* different issued-at and expiration times
C6_Witness ==
  /\ DecodedBy("HCERT") /\ outcome.status = "fulfilled"
  /\ Get(Cwt, "1") = Issuer
  /\ IsNum(Get(Cwt, "6")) /\ IsNum(Get(Cwt, "4"))
  /\ Get(Cwt, "6") # Get(Cwt, "4")

\* C7: for every HCERT input that decodes, meta.kind follows from which of
\* the keys v, t, r are present on the hcert object: Vaccination if v is
\* present, else Test if t is present, else Recovery if r is present.
C7_KindByPresence ==
  (DecodedBy("HCERT") /\ outcome.status = "fulfilled") =>
    LET keys == DOMAIN outcome.data.o IN
    /\ "v" \in keys => outcome.meta.kind = "Vaccination"
    /\ ("v" \notin keys /\ "t" \in keys) => outcome.meta.kind = "Test"
    /\ ("v" \notin keys /\ "t" \notin keys /\ "r" \in keys) =>
          outcome.meta.kind = "Recovery"
    /\ outcome.meta.kind = "Recovery" => "r" \in keys

\* the bytes of CWT claim 7 of the input in hand
CtiOf == Get(Cwt, "7")

\* C8 as claimed: for every NZCP input that decodes, meta.jti is 'urn:uuid:'
\* followed by meta.cti and meta.cti is the UUID text of the 16 bytes of CWT
\* claim 7; a claim 7 that is not 16 bytes makes decode fail.
C8_CtiSixteenBytesOrFail ==
  DecodedBy("NZCP") =>
    /\ outcome.status = "fulfilled" =>
         /\ outcome.meta.jti.cs = S_urn \o outcome.meta.cti.cs
         /\ outcome.meta.cti.cs = UnsafeStringify(CtiOf.b)
         /\ ValidateUuid(outcome.meta.cti.cs)
    /\ (CodecChain("base32", NZCP_PATTERN(input.text).group, input.blob).ok
          /\ (CtiOf.t # "bytes" \/ Len(CtiOf.b) # 16)) =>
         outcome.status = "rejected"

\* C8 amended: for every NZCP input that decodes, meta.jti is 'urn:uuid:'
\* followed by meta.cti and meta.cti is the valid UUID text of the first 16
\* bytes of CWT claim 7; a claim 7 that is absent or shorter than 16 bytes
\* makes decode fail (bytes after the 16th are ignored).
C8_CtiFirstSixteenBytes ==
  DecodedBy("NZCP") =>
    /\ outcome.status = "fulfilled" =>
         /\ outcome.meta.jti.cs = S_urn \o outcome.meta.cti.cs
         /\ CtiOf.t = "bytes" /\ Len(CtiOf.b) >= 16
         /\ outcome.meta.cti.cs = UnsafeStringify(SubSeq(CtiOf.b, 1, 16))
         /\ ValidateUuid(outcome.meta.cti.cs)
         /\ SubSeq(outcome.meta.cti.cs, 1, 2) = <<"1", "1">> \/ CtiOf.b[1] = 0
    /\ (CtiOf.t # "bytes" \/ Len(CtiOf.b) < 16) => outcome.status = "rejected"

\* C8 witness: an NZCP decoded whose CWT ID has more than 16 bytes
C8_Witness ==
  /\ DecodedBy("NZCP") /\ outcome.status = "fulfilled"
  /\ Len(CtiOf.b) > 16
  /\ Len(outcome.meta.jti.cs) = 45

\* C9: for every NZCP input that decodes, meta.iss is the issuer at CWT claim
\* 1 unchanged; only claim 5 and claim 4 are multiplied by 1000, giving
\* meta.iat and meta.exp.
C9_NzcpIssuerUnchanged ==
  (DecodedBy("NZCP") /\ outcome.status = "fulfilled") =>
    /\ Get(Cwt, "1").t = "string" => outcome.meta.iss = Get(Cwt, "1")
    /\ IsNum(Get(Cwt, "5")) => outcome.meta.iat = Millis(Get(Cwt, "5"))
    /\ IsNum(Get(Cwt, "4")) => outcome.meta.exp = Millis(Get(Cwt, "4"))

\* the claim of the credential that holds the time `field' in seconds
SourceSeconds(d, field) ==
  CASE d = "HCERT" -> Get(Cwt, IF field = "iat" THEN "6" ELSE "4")
    [] d \in {"NZCP", "ModulesNZCP"} -> Get(Cwt, IF field = "iat" THEN "5" ELSE "4")
    [] OTHER -> Get(Cwt, field)

\* C10: in every DecodeResult of a registered decoder, meta.iat and meta.exp,
\* when present, are the source claim in seconds multiplied by 1000 exactly
\* once.
C10_MetaTimesInMillis ==
  \A d \in DecoderKinds :
    (DecodedBy(d) /\ outcome.status = "fulfilled") =>
      \A field \in {"iat", "exp"} :
        (field \in DOMAIN outcome.meta /\ IsNum(outcome.meta[field])) =>
          /\ IsNum(SourceSeconds(d, field))
          /\ outcome.meta[field].n = SourceSeconds(d, field).n * 1000

\* the seven registered claims copied into the JWT metadata
JwtMetaKeys == {"iss", "sub", "aud", "jti", "nbf", "exp", "iat"}

\* C11: for every input the JWT decoder decodes, data (and raw) is the full
\* claim set and meta holds exactly the keys iss, sub, aud, jti, nbf, exp and
\* iat, each equal to the claim of the same name with no unit conversion and
\* undefined when the claim is absent.
C11_JwtMetaVerbatim ==
  (DecodedBy("JWT") /\ outcome.status = "fulfilled") =>
    /\ outcome.data = Cwt
    /\ outcome.raw = Cwt
    /\ DOMAIN outcome.meta = JwtMetaKeys
    /\ \A k \in JwtMetaKeys :
         outcome.meta[k] = IF k \in DOMAIN Cwt THEN Cwt[k] ELSE Undefined

\* C11 witness: a JWT decoded that carries all seven registered claims and a
\* private one
C11_Witness ==
  /\ DecodedBy("JWT") /\ outcome.status = "fulfilled"
  /\ JwtMetaKeys \subseteq DOMAIN Cwt
  /\ DOMAIN outcome.data # JwtMetaKeys
  /\ outcome.meta.nbf = Num(1) /\ outcome.meta.exp = Num(MaxSeconds)

\* the input in hand is 'HC1:' followed by a text with a character outside
\* the Base45 alphabet
HC1WithForeignChar ==
  /\ StartsWith(input.text, S_HC1 \o <<":">>)
  /\ \E i \in 5..Len(input.text) : input.text[i] \notin Base45Alphabet

HasLineTerminator == \E i \in 1..Len(input.text) : input.text[i] \in LineTerminators

HasDecoder(d) == \E i \in 1..Len(decoders) : decoders[i] = d

SchemeNamed(message) ==
  CASE message \in {"Invalid HCERT payload", "Invalid HCERT"} -> "HCERT"
    [] message = "Invalid NZCP payload" -> "NZCP"
    [] message = "Invalid JWT payload" -> "JWT"
    [] message = "Invalid MDoc device engagement payload" -> "MDoc"
    [] OTHER -> "none"

\* C13: for each scheme decoder, a failure of decode() after its match is
\* logged once and reaches the caller as a single wrapped error whose
\* message names the scheme that was attempted.
C13_FailureNamesScheme ==
  \A d \in DecoderKinds :
    (DecodedBy(d) /\ outcome.status = "rejected") =>
      /\ outcome.error.class = "Error"
      /\ Len(logged) = 1
      /\ SchemeNamed(outcome.error.message) = SchemeOf(d)

\* the CWT keys each CWT-based decoder reads
HcertKeys == {"1", "4", "6", "-260"}
NzcpKeys == {"1", "4", "5", "7", "vc"}

\* the payload of the input in hand went through the codec chain of the
\* HCERT / NZCP decoder, so that Cwt is the map the decoder read
HcertPayloadRead ==
  /\ HCERTIsMatch(input.text)
  /\ CodecChain("base45", HCERT_PATTERN(input.text).group, input.blob).ok
NzcpPayloadRead ==
  /\ NZCPIsMatch(input.text)
  /\ CodecChain("base32", NZCP_PATTERN(input.text).group, input.blob).ok

HcertKeyMissing ==
  \/ HcertKeys \ DOMAIN Cwt # {}
  \/ Cwt["-260"].t # "object"
  \/ "1" \notin DOMAIN Cwt["-260"].o

MissingValue(v) == v \in {Undefined, NaN}

\* C14: when the payload map of an HCERT (keys 1, 4, 6, -260, sub-key 1) or
\* of an NZCP (keys 1, 4, 5, 7, 'vc') lacks an expected key, decode fails; no
\* result with an undefined or NaN field is returned.
C14_MissingKeyFails ==
  /\ (DecodedBy("HCERT") /\ HcertPayloadRead /\ HcertKeyMissing) =>
        outcome.status = "rejected"
  /\ (DecodedBy("NZCP") /\ NzcpPayloadRead /\ NzcpKeys \ DOMAIN Cwt # {}) =>
        outcome.status = "rejected"
  /\ \A d \in {"HCERT", "NZCP"} :
        (DecodedBy(d) /\ outcome.status = "fulfilled") =>
          /\ ~MissingValue(outcome.data)
          /\ \A k \in DOMAIN outcome.meta : ~MissingValue(outcome.meta[k])

\* C16: when schema validation of an HCERT fails, the error that reaches the
\* caller of decode is a BadRequestError whose message lists every
\* violation; the class of the error is not lost at the decoder boundary.
C16_ValidationErrorClass ==
  (DecodedBy("HCERT") /\ outcome.status = "rejected"
     /\ outcome.error.cause = "BadRequestError") =>
    /\ outcome.error.violations # {}
    /\ outcome.error.class = "BadRequestError"

\* the COSE_Key of the device engagement in hand
DeviceKeyOf == Cwt["1"].a[2].o

\* C18: the EC curve lookup of the MDoc decoder maps COSE curve 1 to 'P-256'
\* and COSE curve 2 to 'P-384'.
C18_EcCurveLookup ==
  (DecodedBy("MDoc") /\ outcome.status = "fulfilled") =>
    /\ DeviceKeyOf["-1"] = Num(1) =>
         outcome.meta.security.deviceKey.crv = Str(<<"P", "-", "2", "5", "6">>)
    /\ DeviceKeyOf["-1"] = Num(2) =>
         outcome.meta.security.deviceKey.crv = Str(<<"P", "-", "3", "8", "4">>)

\* C19: for every HCERT input that decodes, data is the hcert object at
\* sub-key 1 of claim -260 exactly as CBOR-decoded: validation and its rewrite
\* do not change any field of it.
C19_HcertDataAsDecoded ==
  (DecodedBy("HCERT") /\ outcome.status = "fulfilled") =>
    outcome.data = Cwt["-260"].o["1"]

\* what is left of the input in hand after 'mdoc:' and one more ':' if any
AfterMdocColons ==
  LET r == Drop(input.text, Len(S_mdoc) + 1) IN
  IF r # <<>> /\ Head(r) = ":" THEN Tail(r) ELSE r

\* what is left of the input in hand after 'mdoc' and the ':' after it, if
\* there is one and something follows it
AfterMdoc ==
  LET r == Drop(input.text, Len(S_mdoc)) IN
  IF Len(r) >= 2 /\ Head(r) = ":" THEN Tail(r) ELSE r

\* isMatch of the MDoc decoder has been invoked on the input in hand
MDocConsulted ==
  \E i \in 1..Len(calls) : calls[i].op = "isMatch" /\ decoders[calls[i].at] = "MDoc"

\* C20 as claimed: isMatch of the MDoc decoder is true exactly for inputs
\* that begin with 'mdoc:', optionally followed by one more ':', with a
\* non-empty remainder; what decode hands to the Base64URL decoder is that
\* remainder, the whole prefix stripped.
C20_MdocColonPrefix ==
  MDocConsulted =>
    /\ isMatch("MDoc", input) <=>
         (StartsWith(input.text, S_mdoc \o <<":">>) /\ AfterMdocColons # <<>>)
    /\ isMatch("MDoc", input) => MDOC_PATTERN(input.text).group = AfterMdocColons

\* C20 amended: isMatch of the MDoc decoder is true exactly for inputs that
\* begin with 'mdoc' followed by at least one character, none of them a
\* line terminator; the ':' is optional, so 'mdocX' is matched and 'mdoc'
\* alone is not.  decode strips 'mdoc' and the ':' after it when something
\* follows that ':'; a second ':' is handed to the Base64URL decoder, which
\* skips it.
C20_MdocOptionalColon ==
  MDocConsulted =>
    /\ isMatch("MDoc", input) <=>
         /\ StartsWith(input.text, S_mdoc)
         /\ Len(input.text) > Len(S_mdoc)
         /\ ~HasLineTerminator
    /\ isMatch("MDoc", input) => MDOC_PATTERN(input.text).group = AfterMdoc
    /\ (DecodedBy("MDoc") /\ outcome.status = "fulfilled") =>
         SelectSeq(AfterMdoc, InBase64Alphabet) = <<"#">>

\* C20 witness: the MDoc decoder decoded an input with no ':' after 'mdoc'
C20_Witness ==
  /\ DecodedBy("MDoc") /\ outcome.status = "fulfilled"
  /\ input.text = S_mdoc \o <<"#">>

\* C17: under any interleaving of concurrent validate calls on one
\* HCERTDecoder, at most one network fetch per cache key is in flight; the
\* callers that arrive while it is await the same fetch.
C17_SingleFlight ==
  \A k \in MemoKeys :
    /\ fetches[k] <= 1
    /\ fetches[k] = 1 <=> memo[k].s = "pending"
    /\ Awaiting(k) # {} => fetches[k] = 1

\* C17 witness: two callers await the one fetch of the same schema version
C17_Witness ==
  \E k \in MemoKeys :
    /\ k[1] = "fetchJsonSchema"
    /\ Cardinality(Awaiting(k)) >= 2
    /\ fetches[k] = 1

\* C15: two decode calls on the same input give identical outcomes; nothing
\* an earlier call left behind (the HCERT schema cache, the outcome of a
\* remote fetch) changes the outcome of a later call.
C15_SameInputSameOutcome ==
  \A c1, c2 \in Callers :
    (callers[c1].pc = "done" /\ callers[c2].pc = "done"
       /\ callers[c1].in = callers[c2].in) =>
      callers[c1].outcome = callers[c2].outcome

\* the text decoder of the HCERT / NZCP decoder returned the buffer of the
\* input in hand
HcertBufferRead ==
  /\ DecodedBy("HCERT")
  /\ HCERT_PATTERN(input.text).group = <<"#">> /\ input.blob.enc = "base45"
NzcpBufferRead ==
  /\ DecodedBy("NZCP")
  /\ NZCP_PATTERN(input.text).group = <<"#">> /\ input.blob.enc = "base32"

PassedThrough(buffer) == [ok |-> TRUE, bytes |-> buffer]

\* C21: in the HCERT and NZCP pipelines the inflate stage attempts zlib
\* inflate if and only if the first byte of the alphabet-decoded buffer is
\* 0x78; a buffer with another first byte, and the empty buffer, leave the
\* stage byte for byte as they came.
C21_InflateSniff ==
  (HcertBufferRead \/ NzcpBufferRead) =>
    LET buffer == BufferOf(input.blob) IN
    /\ (buffer = <<>> \/ buffer[1] # 120) => InflateStage(buffer) = PassedThrough(buffer)
    /\ (buffer # <<>> /\ buffer[1] = 120) =>
         /\ InflateStage(buffer) # PassedThrough(buffer)
         /\ InflateStage(buffer).ok => Len(InflateStage(buffer).bytes) < Len(buffer)
    /\ WireOf(input.blob) \in {"corrupt", "empty"} => outcome.status = "rejected"
    /\ (NzcpBufferRead /\ CoseOf(input.blob) = "sign1"
          /\ WireOf(input.blob) \in {"plain", "deflated"}
          /\ ~StringifyThrows(Get(Cwt, "7"))) => outcome.status = "fulfilled"

\* C21 witness: an NZCP decoded whose buffer does not start with 0x78, having
\* passed the inflate stage as it was
C21_Witness ==
  /\ NzcpBufferRead /\ outcome.status = "fulfilled"
  /\ "wire" \in DOMAIN input.blob /\ input.blob.wire = "plain"
  /\ BufferOf(input.blob)[1] = 210

\* C22: in the HCERT and the NZCP decoder the bytes CBOR-decoded as the claim
\* map are element index 2 of the value array of the decoded COSE envelope;
\* an envelope whose value is missing or has fewer than 3 elements makes
\* decode fail with the wrapped error of the scheme.
C22_PayloadAtIndexTwo ==
  \A d \in {"HCERT", "NZCP"} :
    (((d = "HCERT" /\ HcertBufferRead) \/ (d = "NZCP" /\ NzcpBufferRead))
       /\ WireOf(input.blob) \in {"plain", "deflated"}) =>
      LET coseData == Envelope(input.blob) IN
      /\ outcome.status = "fulfilled" =>
           /\ "value" \in DOMAIN coseData
           /\ Len(coseData.value) >= 3
           /\ coseData.value[3] = ByteString(Cwt)
           /\ DOMAIN outcome.raw = DOMAIN Cwt
      /\ ("value" \notin DOMAIN coseData \/ Len(coseData.value) < 3) =>
           /\ outcome.status = "rejected"
           /\ SchemeNamed(outcome.error.message) = d
           /\ outcome.error.cause = "codec"

\* C22 witness: a deflated HCERT decoded from the third element of its
\* envelope
C22_Witness ==
  /\ HcertBufferRead /\ outcome.status = "fulfilled"
  /\ "cose" \in DOMAIN input.blob /\ input.blob.cose = "sign1"
  /\ WireOf(input.blob) = "deflated"

\* the callers that stand at, or await, a memoized download
Fetching == {c \in Callers : callers[c].pc \in
               {"callSchema", "awaitSchema", "callValuesets", "awaitValuesets"}}

\* C23: in validate both the JSON schema and the value sets are fetched for
\* the version the payload names in ver (branch release/<ver>, 'main' only
\* when ver is absent), and each result is cached under that version key for
\* one hour.
C23_FetchedForVersion ==
  \A c \in Fetching :
    LET ver == VersionOf(HcertOf(callers[c].in)) IN
    /\ Branch(VersionAt(c)) = IF ver.t = "string" THEN <<"release", ver.cs>> ELSE <<"main">>
    /\ KeyAt(c)[2] = IF ver.t = "string" THEN ver.cs ELSE DefaultKey

\* the last step was a call of isMatch
IsMatchStep ==
  /\ Len(calls') = Len(calls) + 1
  /\ calls'[Len(calls')].op = "isMatch"

\* C24: isMatch of every registered decoder is total: for every input, the
\* empty string and strings without '.' included, it returns true or false,
\* never throws, and changes no decoder state.
C24_IsMatchTotal ==
  /\ [](pc # "idle" =>
          /\ \A d \in DecoderKinds :
               ~isMatchThrows(d, input) /\ isMatch(d, input) \in BOOLEAN
          /\ (pc = "done" /\ \A i \in 1..Len(calls) : calls[i].op = "isMatch") =>
               outcome = EmptyResult
          /\ pc = "loop" => outcome = Pending)
  /\ [][IsMatchStep =>
          UNCHANGED <<registry, decoders, input, outcome, logged, memo, fetches, callers>>]_vars

\* C24 witness: the four registered decoders were asked about the empty
\* string, and each answered false
C24_Witness ==
  /\ pc = "done" /\ decoders = buildDecoders
  /\ input.text = <<>>
  /\ Len(calls) = 4
  /\ outcome = EmptyResult

\* what is left of the input in hand after the prefix and the ':' after it,
\* if there is one and something follows it
AfterPrefix(prefix) ==
  LET r == Drop(input.text, Len(prefix)) IN
  IF Len(r) >= 2 /\ Head(r) = ":" THEN Tail(r) ELSE r

\* the text the decoder of scheme d hands to its alphabet-decode stage
HandedToTextDecoder(d) ==
  CASE d = "MDoc" -> MDOC_PATTERN(input.text).group
    [] d = "HCERT" -> HCERT_PATTERN(input.text).group
    [] OTHER -> NZCP_PATTERN(input.text).group

\* C25: for each prefix decoder, whenever isMatch(input) is true decode(input)
\* never fails with the 'does not confirm to ... format' error, and the text
\* handed to the alphabet-decode stage is the non-empty remainder of the
\* input after the prefix, the ':' consumed when one stands directly after
\* 'HC1' or 'mdoc' and further characters follow.
C25_IsMatchAgreesWithDecode ==
  \A d \in {"MDoc", "HCERT", "NZCP"} :
    /\ (pc # "idle" /\ isMatch(d, input)) =>
         /\ \A val \in ValidationOutcomes :
              LET r == decoderDecode(d, input, val) IN
              r.status = "rejected" => r.error.cause # "none"
         /\ HandedToTextDecoder(d) # <<>>
         /\ HandedToTextDecoder(d) =
              IF d = "NZCP" THEN Drop(input.text, Len(S_NZCP))
              ELSE AfterPrefix(IF d = "HCERT" THEN S_HC1 ELSE S_mdoc)
    /\ DecodedBy(d) =>
         (outcome.status = "rejected" =>
            outcome.error.message \in
              {"Invalid MDoc device engagement payload", "Invalid HCERT payload",
               "Invalid NZCP payload"})

\* C25 witness: the HCERT decoder was handed 'HC1:' with nothing after the
\* ':', matched it, and failed on the payload ':', not on the format
C25_Witness ==
  /\ DecodedBy("HCERT")
  /\ input.text = S_HC1 \o <<":">>
  /\ outcome.status = "rejected"
  /\ outcome.error.message = "Invalid HCERT payload"

\* C26: for every HCERT input that decodes, meta.kind is 'Recovery' exactly
\* when hcert.v and hcert.t are both falsy, whether or not the key r is
\* present; meta.kind is always one of 'Vaccination', 'Test' and 'Recovery'.
C26_RecoveryByDefault ==
  (DecodedBy("HCERT") /\ outcome.status = "fulfilled") =>
    LET hcert == Cwt["-260"].o["1"].o IN
    /\ outcome.meta.kind \in {"Vaccination", "Test", "Recovery"}
    /\ outcome.meta.kind = "Recovery" <=>
         (~Truthy(Get(hcert, "v")) /\ ~Truthy(Get(hcert, "t")))

\* C26 witness: a certificate with none of v, t and r decoded as a recovery
C26_Witness ==
  /\ DecodedBy("HCERT") /\ outcome.status = "fulfilled"
  /\ DOMAIN Cwt["-260"].o["1"].o \cap {"v", "t", "r"} = {}
  /\ outcome.meta.kind = "Recovery"

\* the download awaited under key k failed in the last step
FetchFailedStep(k) == fetches'[k] < fetches[k] /\ memo'[k].s # "resolved"

\* C27: HCERTDecoder.decode returns a DecodeResult only after validateOrThrow
\* completed for the hcert object: when the schema or value-set fetch fails,
\* or validation reports an error, decode rejects with the wrapped HCERT
\* error and returns no partial result.
C27_ResultOnlyAfterValidation ==
  /\ [](\A c \in Callers :
          callers[c].pc = "done" =>
            LET r == callers[c].outcome
                hcert == HcertOf(callers[c].in)
            IN /\ r.status = "fulfilled" =>
                    /\ callers[c].schema # Absent
                    /\ Violations(hcert, callers[c].schema) = {}
                    /\ DOMAIN r = {"status", "raw", "data", "meta"}
               /\ r.status # "fulfilled" =>
                    /\ r.status = "rejected"
                    /\ DOMAIN r = {"status", "error"}
                    /\ r.error.message = "Invalid HCERT payload"
               /\ (callers[c].schema # Absent
                     /\ Violations(hcert, callers[c].schema) # {}) =>
                    (r.status = "rejected"
                      /\ r.error.cause \in {"BadRequestError", "HTTPError"})
               /\ (ReachesValidate(callers[c].in) /\ callers[c].schema = Absent) =>
                    (r.status = "rejected" /\ r.error.cause = "HTTPError"))
  /\ [][\A k \in MemoKeys :
          FetchFailedStep(k) =>
            \A c \in Awaiting(k) :
              /\ callers'[c].pc = "done"
              /\ callers'[c].outcome.status = "rejected"
              /\ callers'[c].outcome.error.cause = "HTTPError"]_vars

\* C27 witness: one caller was rejected because the value sets could not be
\* fetched after the schema was, another one got its result after validation
C27_Witness ==
  \E c1, c2 \in Callers :
    /\ callers[c1].pc = "done" /\ callers[c1].schema # Absent
    /\ callers[c1].outcome.status = "rejected"
    /\ callers[c1].outcome.error.cause = "HTTPError"
    /\ callers[c2].pc = "done" /\ callers[c2].outcome.status = "fulfilled"

\* caller c went from calling a memoized fetch to awaiting its promise
CallStep(c) ==
  /\ callers[c].pc \in {"callSchema", "callValuesets"}
  /\ callers'[c].pc \in {"awaitSchema", "awaitValuesets"}

\* C28: a failed schema or value-set fetch is never kept in the cache: when a
\* fetch rejects its key has no entry afterwards, and the next validate call
\* for that key starts a new fetch.
C28_FailedFetchNotCached ==
  /\ [](\A k \in MemoKeys : memo[k] \in {NoEntry, PendingEntry}
                                \/ memo[k].s = "resolved")
  /\ [][\A k \in MemoKeys : FetchFailedStep(k) => memo'[k] = NoEntry]_vars
  /\ [][\A c \in Callers :
          (CallStep(c) /\ memo[KeyAt(c)] = NoEntry) =>
            /\ fetches'[KeyAt(c)] = fetches[KeyAt(c)] + 1
            /\ memo'[KeyAt(c)] = PendingEntry]_vars

\* C28 witness: one caller holds the failure of the schema fetch while another
\* caller with the same input awaits a new fetch for the same key
C28_Witness ==
  \E c1, c2 \in Callers :
    /\ callers[c1].pc = "done" /\ callers[c1].schema = Absent
    /\ callers[c1].outcome.status = "rejected"
    /\ callers[c1].outcome.error.cause = "HTTPError"
    /\ callers[c2].pc = "awaitSchema" /\ callers[c2].in = callers[c1].in
    /\ fetches[KeyAt(c2)] = 1 /\ memo[KeyAt(c2)] = PendingEntry

\* C29: in the rewrite hook of validate a field whose schema carries
\* 'valueset-uri' is rewritten to the value stored under
\* valueSetValues[field] of that value set; an unknown value set or a coded
\* value with no entry in it raises an invariant error instead of rewriting
\* the field to undefined; a field without 'valueset-uri' is left unchanged.
C29_RewriteNeverUndefined ==
  (DecodedBy("HCERT") /\ outcome.status = "fulfilled") =>
    \A e \in Entries(outcome.data) :
      e.t = "object" =>
        \A f \in DOMAIN e.o :
          /\ e.o[f] # Undefined
          /\ f \notin DOMAIN LenientSchema.coded =>
               \E o \in Entries(Cwt["-260"].o["1"]) :
                 o.t = "object" /\ f \in DOMAIN o.o /\ o.o[f] = e.o[f]

\* the keys whose latest setItem has not expired at time t: the set time
\* plus exp seconds is not reached
Live(t) ==
  {k \in StorageKeys :
     written[k] # NoCall /\ t < written[k].at + written[k].exp}

\* what a read at time t gets for a live key
RoundTrip(k) == JSONParse(JSONStringify(written[k].value))

GetItemAsSet ==
  answer.op = "getItem" =>
    answer.value = IF answer.key \in Live(answer.at)
                   THEN RoundTrip(answer.key) ELSE Null

GetAllLiveOnly ==
  answer.op = "getAll" =>
    \A i \in DOMAIN answer.value :
      \E k \in Live(answer.at) : answer.value[i] = RoundTrip(k)

IsEmptyLiveOnly ==
  answer.op = "isEmpty" => (answer.value <=> Live(answer.at) = {})

\* C30: on an in-memory storage getItem(key) returns null for a key never
\* set or whose latest setItem has expired (set time plus exp seconds
\* reached), and otherwise the JSON round trip of the value most recently
\* set for it; getAll and isEmpty never return or count an expired record.
C30_StorageReads ==
  /\ GetItemAsSet
  /\ GetAllLiveOnly
  /\ IsEmptyLiveOnly

====
